---- MODULE Spec2Model ----
(***************************************************************************)
(* QR Feedback: the request handlers of app/main.py over the SQLite schema *)
(* of app/db.py.  Handlers run concurrently on worker threads; a handler   *)
(* that touches the database more than once is split at its SQL            *)
(* statements, each of which is atomic.                                    *)
(*                                                                         *)
(* Strings that the code inspects character by character (slugs, names)    *)
(* are sequences of one-character strings.  The review columns comment,    *)
(* contact_email and created_at are validated on input but are not columns *)
(* of the modelled rows.                                                   *)
(***************************************************************************)
EXTENDS Integers, Sequences, FiniteSets, TLC

\* ---------------------------------------------------------------- bounds
\* at most this many review submissions are accepted in one behaviour
MaxReviews == 1

\* ------------------------------------------------------- program constants
MaxSlugLen == 60
MaxCommentLen == 1000
MinRating == 1
MaxRating == 5
FlagThreshold == 2

\* ------------------------------------------------------------- characters
Lowers == <<"a","b","c","d","e","f","g","h","i","j","k","l","m",
            "n","o","p","q","r","s","t","u","v","w","x","y","z">>
Uppers == <<"A","B","C","D","E","F","G","H","I","J","K","L","M",
            "N","O","P","Q","R","S","T","U","V","W","X","Y","Z">>

IsLower(c) == \E i \in DOMAIN Lowers : Lowers[i] = c
IsUpper(c) == \E i \in DOMAIN Uppers : Uppers[i] = c
IsCased(c) == IsLower(c) \/ IsUpper(c)

ToUpper(c) == IF IsLower(c) THEN Uppers[CHOOSE i \in DOMAIN Lowers : Lowers[i] = c] ELSE c
ToLower(c) == IF IsUpper(c) THEN Lowers[CHOOSE i \in DOMAIN Uppers : Uppers[i] = c] ELSE c

\* str.replace(old, new) for one-character old and new
Replace(s, old, new) == [i \in 1..Len(s) |-> IF s[i] = old THEN new ELSE s[i]]

\* str.title(): a cased character is upper-cased when the character before
\* it is not cased, and lower-cased otherwise
RECURSIVE TitleFrom(_, _, _)
TitleFrom(s, i, prevCased) ==
    IF i > Len(s) THEN <<>>
    ELSE <<IF prevCased THEN ToLower(s[i]) ELSE ToUpper(s[i])>>
         \o TitleFrom(s, i + 1, IsCased(s[i]))

Title(s) == TitleFrom(s, 1, FALSE)

\* name = slug.replace("-", " ").title()
BusinessName(slug) == Title(Replace(slug, "-", " "))

\* ------------------------------------------------------------------ slugs
DemoSlug == <<"d","e","m","o">>
DemoName == <<"D","e","m","o"," ","S","h","o","p">>
CafeSlug == <<"n","e","w","-","c","A","f","e">>
LongSlug == [i \in 1..(MaxSlugLen + 1) |-> IF i = 3 THEN "-" ELSE "x"]
EmptySlug == <<>>

\* a path parameter of /r/{slug} is one non-empty path segment
PathSlugs == {DemoSlug, CafeSlug, LongSlug}
\* a JSON body can carry any string
BodySlugs == PathSlugs \cup {EmptySlug}

\* ----------------------------------------------------------- environment
Unset == "<unset>"
VARIABLES env

EnvGet(name, default) == IF env[name] = Unset THEN default ELSE env[name]

ADMIN_PASSWORD == EnvGet("ADMIN_PASSWORD", "")
DefaultSecret == "dev-secret-change-this"
SECRET == EnvGet("SESSION_SECRET", DefaultSecret)

\* ----------------------------------------------------------------- tokens
\* A cookie value: absent, a string with no signature separator, or
\* payload.signature made with some key; intact is FALSE when a bit of the
\* payload or of the signature was changed after signing.
Absent == [form |-> "absent", key |-> "", payload |-> "", intact |-> FALSE]
Malformed == [form |-> "malformed", key |-> "", payload |-> "", intact |-> FALSE]
Signed(k, pl, ok) == [form |-> "signed", key |-> k, payload |-> pl, intact |-> ok]

Keys == {DefaultSecret, "prod-secret"}
\* payloads: {"admin": true}, {"admin": false}, {}, {"admin": 1}, a JSON value
\* that is not an object, bytes that do not decode as JSON
Payloads == {"admin_true", "admin_false", "admin_missing", "admin_one",
             "not_a_dict", "undecodable"}
\* every payload signed with the server's key, and {"admin": true} tampered
\* with or signed with another key
Tokens == {Absent, Malformed}
          \cup {Signed(SECRET, pl, TRUE) : pl \in Payloads}
          \cup {Signed(SECRET, "admin_true", FALSE)}
          \cup {Signed(k, "admin_true", TRUE) : k \in Keys}

\* serializer.dumps({"admin": True})
dumps == Signed(SECRET, "admin_true", TRUE)

\* serializer.loads(token): the signature is verified before the payload is
\* decoded; BadPayload is not a BadSignature
loads(token) ==
    IF token.form # "signed" \/ token.key # SECRET \/ ~token.intact
    THEN "BadSignature"
    ELSE IF token.payload = "undecodable" THEN "BadPayload"
    ELSE token.payload

\* "ok", "HTTP401", or the name of the exception that escapes
require_admin(token) ==
    IF token = Absent THEN "HTTP401"
    ELSE LET data == loads(token) IN
         IF data = "BadSignature" THEN "HTTP401"
         ELSE IF data = "BadPayload" THEN "BadPayload"
         ELSE IF data = "not_a_dict" THEN "AttributeError"
         ELSE IF data = "admin_true" THEN "ok"
         ELSE "HTTP401"

\* ---------------------------------------------------------------- storage
Workers == {"w1", "w2"}

VARIABLES businesses, reviews, worker, open, cookie, resp

vars == <<env, businesses, reviews, worker, open, cookie, resp>>

NoRow == [id |-> 0, slug |-> EmptySlug, name |-> EmptySlug]

\* (the businesses table without its UNIQUE constraint)
SlugUniqueMutNone(slug) == TRUE

\* slug TEXT UNIQUE NOT NULL: may a row with this slug be inserted
SlugUnique(slug) == \A i \in DOMAIN businesses : businesses[i].slug # slug

\* rating INTEGER NOT NULL CHECK (rating BETWEEN 1 AND 5)
RatingCheck(rating) == rating >= MinRating /\ rating <= MaxRating

\* SELECT * FROM businesses WHERE slug = ?  (fetchone)
get_business_by_slug(slug) ==
    IF \E i \in DOMAIN businesses : businesses[i].slug = slug
    THEN businesses[CHOOSE i \in DOMAIN businesses :
                        /\ businesses[i].slug = slug
                        /\ \A j \in DOMAIN businesses :
                              businesses[j].slug = slug => i <= j]
    ELSE NoRow

\* ------------------------------------------------------------- validation
NoneVal == "<None>"
GoodEmail == "a@b.com"

\* (ReviewCreate without the bounds on rating)
InvalidFieldMutNoRating(slug, rating, commentLen, email) ==
    IF Len(slug) < 1 \/ Len(slug) > MaxSlugLen THEN "business_slug"
    ELSE IF commentLen > MaxCommentLen THEN "comment"
    ELSE IF email \notin {NoneVal, GoodEmail} THEN "contact_email"
    ELSE ""

\* ReviewCreate(business_slug, rating, comment, contact_email): the first
\* field, in declaration order, that fails its constraint; "" when none does.
\* business_slug: min_length=1, max_length=60; rating: ge=1, le=5;
\* comment: max_length=1000; contact_email: Optional[EmailStr]
InvalidField(slug, rating, commentLen, email) ==
    IF Len(slug) < 1 \/ Len(slug) > MaxSlugLen THEN "business_slug"
    ELSE IF rating < MinRating \/ rating > MaxRating THEN "rating"
    ELSE IF commentLen > MaxCommentLen THEN "comment"
    ELSE IF email \notin {NoneVal, GoodEmail} THEN "contact_email"
    ELSE ""

ReviewCreateValid(slug, rating, commentLen, email) ==
    InvalidField(slug, rating, commentLen, email) = ""

\* x.strip() or None
StripOrNone(s) == IF s = "" THEN NoneVal ELSE s

\* flagged = 1 if payload.rating <= 2 else 0
Flagged(rating) == rating <= FlagThreshold

\* -------------------------------------------------------------- responses
\* the last HTTP response sent: its status and what its body says
Resp(status, detail) == [status |-> status, detail |-> detail]

Idle == [pc |-> "idle", op |-> "", slug |-> EmptySlug, rating |-> 0, biz |-> 0]

\* the values the two environment variables are given at start-up
PasswordSettings == {Unset, "hunter2"}
SecretSettings == {Unset, "prod-secret"}
\* the passwords a login request is tried with
Passwords == {"", "hunter2", "letmein"}

\* init_db(): both tables, and the seeded demo business
Init ==
    /\ env \in [ADMIN_PASSWORD : PasswordSettings, SESSION_SECRET : SecretSettings]
    /\ businesses = <<[id |-> 1, slug |-> DemoSlug, name |-> DemoName]>>
    /\ reviews = <<>>
    /\ worker = [p \in Workers |-> Idle]
    /\ open = [p \in Workers |-> 0]
    /\ cookie = Absent
    /\ resp = Resp(0, "")

\* review submissions that passed validation and have not yet ended
InFlight == {p \in Workers : worker[p].pc # "idle" /\ worker[p].op # "review_form"}
Room == Len(reviews) + Cardinality(InFlight) < MaxReviews

\* a request goes to an idle worker thread; the threads are interchangeable,
\* so it is given to the first idle one.  open[p] counts the connections that
\* the operation running (or last run) on p opened and has not closed; a
\* connection left open by a failed operation is reclaimed by the runtime
\* before the thread serves its next request.
Takes(p) ==
    /\ worker[p].pc = "idle"
    /\ p = "w1" \/ worker["w1"].pc # "idle"

\* ------------------------------------------------ get_or_create_business
\* the row get_or_create_business returns goes back to the handler
GocReturn(p, op, slug, rating, row) ==
    IF op = "review_form"
    THEN /\ worker' = [worker EXCEPT ![p] = Idle]
         /\ resp' = Resp(200, "")
    ELSE /\ worker' = [worker EXCEPT ![p] =
                [pc |-> "cr_insert", op |-> op, slug |-> slug,
                 rating |-> rating, biz |-> row.id]]
         /\ UNCHANGED resp

\* row = get_business_by_slug(slug); if row: return row
GocBegin(p, op, slug, rating) ==
    LET row == get_business_by_slug(slug) IN
    IF row # NoRow
    THEN GocReturn(p, op, slug, rating, row)
    ELSE /\ worker' = [worker EXCEPT ![p] =
                [pc |-> "goc_insert", op |-> op, slug |-> slug,
                 rating |-> rating, biz |-> 0]]
         /\ UNCHANGED resp

\* conn = get_conn(); INSERT INTO businesses (slug, name); conn.commit()
GocInsert(p) ==
    /\ worker[p].pc = "goc_insert"
    /\ open' = [open EXCEPT ![p] = @ + 1]
    /\ IF SlugUnique(worker[p].slug)
       THEN /\ businesses' = Append(businesses,
                    [id |-> Len(businesses) + 1, slug |-> worker[p].slug,
                     name |-> BusinessName(worker[p].slug)])
            /\ worker' = [worker EXCEPT ![p].pc = "goc_select"]
            /\ UNCHANGED resp
       ELSE \* sqlite3.IntegrityError leaves the function; nothing catches
            \* it and nothing closes the connection
            /\ worker' = [worker EXCEPT ![p] = Idle]
            /\ resp' = Resp(500, "IntegrityError")
            /\ UNCHANGED businesses
    /\ UNCHANGED <<env, reviews, cookie>>

\* SELECT * FROM businesses WHERE slug = ?; conn.close(); return row
GocSelect(p) ==
    /\ worker[p].pc = "goc_select"
    /\ open' = [open EXCEPT ![p] = @ - 1]
    /\ GocReturn(p, worker[p].op, worker[p].slug, worker[p].rating,
                 get_business_by_slug(worker[p].slug))
    /\ UNCHANGED <<env, businesses, reviews, cookie>>

\* ------------------------------------------------------------- handlers
\* GET /r/{slug}
review_form(p, slug) ==
    /\ Takes(p)
    /\ GocBegin(p, "review_form", slug, 0)
    /\ open' = [open EXCEPT ![p] = 0]
    /\ UNCHANGED <<env, businesses, reviews, cookie>>

\* POST /r/{slug}: the payload is built and validated inside the handler,
\* so a pydantic ValidationError is an unhandled exception
submit_review_form(p, slug, rating, commentLen, email) ==
    /\ Takes(p)
    /\ IF ReviewCreateValid(slug, rating, commentLen, StripOrNone(email))
       THEN Room /\ GocBegin(p, "submit_review_form", slug, rating)
       ELSE /\ resp' = Resp(500, "ValidationError")
            /\ UNCHANGED worker
    /\ open' = [open EXCEPT ![p] = 0]
    /\ UNCHANGED <<env, businesses, reviews, cookie>>

\* POST /api/reviews: the body is validated before the handler runs
create_review(p, slug, rating, commentLen, email) ==
    /\ Takes(p)
    /\ IF ReviewCreateValid(slug, rating, commentLen, email)
       THEN Room /\ GocBegin(p, "create_review", slug, rating)
       ELSE /\ resp' = Resp(422, InvalidField(slug, rating, commentLen, email))
            /\ UNCHANGED worker
    /\ open' = [open EXCEPT ![p] = 0]
    /\ UNCHANGED <<env, businesses, reviews, cookie>>

\* return {"ok": True, "flagged": bool(flagged)}
OkBody(flagged) == Resp(200, IF flagged THEN "flagged" ELSE "not flagged")

\* conn = get_conn(); INSERT INTO reviews ...; conn.commit(); conn.close()
CrInsert(p) ==
    /\ worker[p].pc = "cr_insert"
    /\ worker' = [worker EXCEPT ![p] = Idle]
    /\ IF RatingCheck(worker[p].rating)
       THEN /\ reviews' = Append(reviews,
                    [id |-> Len(reviews) + 1, business_id |-> worker[p].biz,
                     rating |-> worker[p].rating, seen |-> FALSE,
                     flagged |-> Flagged(worker[p].rating)])
            /\ resp' = IF worker[p].op = "create_review"
                       THEN OkBody(Flagged(worker[p].rating))
                       ELSE Resp(303, "")
            /\ UNCHANGED open
       ELSE /\ open' = [open EXCEPT ![p] = @ + 1]
            /\ resp' = Resp(500, "IntegrityError")
            /\ UNCHANGED reviews
    /\ UNCHANGED <<env, businesses, cookie>>

\* ------------------------------------------------------------ admin auth
\* (admin_login without the check that a password is configured)
admin_loginMutNoGuard(password) ==
    IF password # ADMIN_PASSWORD THEN "Wrong password" ELSE "token"

\* what POST /admin/login answers for a supplied password
admin_login(password) ==
    IF ADMIN_PASSWORD = "" THEN "Server missing ADMIN_PASSWORD env var"
    ELSE IF password # ADMIN_PASSWORD THEN "Wrong password"
    ELSE "token"

\* POST /admin/login
AdminLogin(password) ==
    /\ IF admin_login(password) = "token"
       THEN /\ cookie' = dumps
            /\ resp' = Resp(303, "")
       ELSE /\ UNCHANGED cookie
            /\ resp' = Resp(200, admin_login(password))
    /\ UNCHANGED <<env, businesses, reviews, worker, open>>

\* GET /admin/logout
admin_logout ==
    /\ cookie' = Absent
    /\ resp' = Resp(303, "")
    /\ UNCHANGED <<env, businesses, reviews, worker, open>>

\* the cookie a request to an admin route carries: the browser's own, or
\* any value a client chooses to send
SentCookies == Tokens \cup {cookie}

\* Depends(require_admin) raises: the route's handler does not run.  An
\* HTTPException is answered with its status; any other exception is an
\* unhandled error of the request.
require_admin_raises(token) ==
    /\ require_admin(token) # "ok"
    /\ resp' = IF require_admin(token) = "HTTP401"
               THEN Resp(401, "Not authenticated")
               ELSE Resp(500, require_admin(token))
    /\ UNCHANGED <<env, businesses, reviews, worker, open, cookie>>

\* GET /admin
admin_dashboard(token) ==
    /\ require_admin(token) = "ok"
    /\ resp' = Resp(200, "")
    /\ UNCHANGED <<env, businesses, reviews, worker, open, cookie>>

\* (an UPDATE that flips seen instead of setting it)
SetSeenMutToggle(review_id) ==
    [i \in DOMAIN reviews |->
        IF reviews[i].id = review_id
        THEN [reviews[i] EXCEPT !.seen = ~@] ELSE reviews[i]]

\* UPDATE reviews SET seen = 1 WHERE id = ?
SetSeen(review_id) ==
    [i \in DOMAIN reviews |->
        IF reviews[i].id = review_id
        THEN [reviews[i] EXCEPT !.seen = TRUE] ELSE reviews[i]]

\* POST /admin/reviews/{review_id}/seen
mark_seen(token, review_id) ==
    /\ require_admin(token) = "ok"
    /\ reviews' = SetSeen(review_id)
    /\ resp' = Resp(303, "")
    /\ UNCHANGED <<env, businesses, worker, open, cookie>>

\* GET /admin/export.csv
export_csv(token) ==
    /\ require_admin(token) = "ok"
    /\ resp' = Resp(200, "")
    /\ UNCHANGED <<env, businesses, reviews, worker, open, cookie>>

\* ------------------------------------------------------------- requests
Ratings == (MinRating - 1)..(MaxRating + 1)
CommentLens == {MaxCommentLen, MaxCommentLen + 1}
FormEmails == {"", GoodEmail, "not-an-email"}
BodyEmails == FormEmails \cup {NoneVal}
ReviewIds == 1..(MaxReviews + 1)

\* the bodies tried: every rating with the seeded slug, a low rating with a
\* new slug, every slug, and every comment and e-mail
Bodies ==
    {<<DemoSlug, r, 0, NoneVal>> : r \in Ratings}
    \cup {<<s, 1, 0, NoneVal>> : s \in BodySlugs}
    \cup {<<DemoSlug, 3, c, NoneVal>> : c \in CommentLens}
    \cup {<<DemoSlug, 3, 0, e>> : e \in BodyEmails}
Forms ==
    {<<DemoSlug, r, 0, "">> : r \in Ratings}
    \cup {<<s, 1, 0, "">> : s \in PathSlugs}
    \cup {<<DemoSlug, 3, c, "">> : c \in CommentLens}
    \cup {<<DemoSlug, 3, 0, e>> : e \in FormEmails}

Next ==
    \/ \E p \in Workers, s \in PathSlugs : review_form(p, s)
    \/ \E p \in Workers, f \in Forms : submit_review_form(p, f[1], f[2], f[3], f[4])
    \/ \E p \in Workers, b \in Bodies : create_review(p, b[1], b[2], b[3], b[4])
    \/ \E p \in Workers : GocInsert(p)
    \/ \E p \in Workers : GocSelect(p)
    \/ \E p \in Workers : CrInsert(p)
    \/ \E pw \in Passwords : AdminLogin(pw)
    \/ admin_logout
    \/ \E t \in SentCookies : require_admin_raises(t)
    \/ \E t \in SentCookies : admin_dashboard(t)
    \/ \E t \in SentCookies, id \in ReviewIds : mark_seen(t, id)
    \/ \E t \in SentCookies : export_csv(t)

Spec == Init /\ [][Next]_vars

\* ------------------------------------------------------------ properties
InRange(r) == r \in MinRating..MaxRating

\* the name the data model gives an auto-created business: hyphens become
\* spaces, and each word starts with a capital and continues in lower case
ExpectedName(slug) ==
    [k \in 1..Len(slug) |->
        IF slug[k] = "-" THEN " "
        ELSE IF k = 1 \/ slug[k - 1] = "-" THEN ToUpper(slug[k])
        ELSE ToLower(slug[k])]

\* C1: whatever the interleaving of get_or_create_business calls, no two
\* rows of businesses share a slug, and every auto-created row carries the
\* name derived from its slug.
C1_OneRowPerSlug ==
    /\ \A i, j \in DOMAIN businesses :
          businesses[i].slug = businesses[j].slug => i = j
    /\ \A i \in DOMAIN businesses :
          businesses[i].slug # DemoSlug =>
             businesses[i].name = ExpectedName(businesses[i].slug)

\* two calls saw the slug missing, and one of them has inserted its row
C1_Raced ==
    \E p \in Workers :
       /\ worker[p].pc = "goc_insert"
       /\ ~SlugUnique(worker[p].slug)
       /\ Len(businesses) > 1

\* C2: no get_or_create_business call lets the unique-constraint conflict
\* reach its caller.
C2_ConflictAbsorbed == resp # Resp(500, "IntegrityError")

Verifies(t) == t.form = "signed" /\ t.key = SECRET /\ t.intact
Unauthorized == Resp(401, "Not authenticated")

\* C3: an admin-only request either carries a token that verifies under the
\* current secret with admin = true, or is answered 401 and leaves storage
\* as it was.
C3_AdminOrUnauthorized ==
    [][\A t \in SentCookies :
          (\/ require_admin_raises(t)
           \/ admin_dashboard(t)
           \/ export_csv(t)
           \/ \E id \in ReviewIds : mark_seen(t, id))
          => \/ Verifies(t) /\ t.payload = "admin_true"
             \/ resp' = Unauthorized /\ UNCHANGED <<businesses, reviews>>]_vars

\* C4: a login sets a token only for the configured, non-empty password;
\* any other login answers with an error, sets no token, and a browser that
\* was denied before it is denied after it.
C4_LoginFailsClosed ==
    [][\A pw \in Passwords :
          AdminLogin(pw) =>
             IF ADMIN_PASSWORD # "" /\ pw = ADMIN_PASSWORD
             THEN cookie' = dumps
             ELSE /\ cookie' = cookie
                  /\ resp'.status = 200 /\ resp'.detail # ""
                  /\ require_admin(cookie) # "ok" => require_admin(cookie)' # "ok"]_vars

\* a wrong password was answered, and the browser is still denied
C4_WrongPasswordTried ==
    /\ resp = Resp(200, "Wrong password")
    /\ require_admin(cookie) # "ok"

\* C5: with the signing secret or the admin password unset no token is ever
\* issued, and no token is signed with the built-in default secret.
C5_NoTokenWithoutConfig ==
    /\ (env.SESSION_SECRET = Unset \/ env.ADMIN_PASSWORD = Unset) => cookie = Absent
    /\ cookie # Absent => cookie.key # DefaultSecret

\* C6: an accepted review submission (rating in 1..5) ends by storing one
\* review with seen = false and flagged = (rating <= 2) and answering with
\* that flag; and flagged of a stored review never changes.
C6_ReviewStoredAndFlagged ==
    [][/\ \A p \in Workers :
             (worker[p].pc # "idle" /\ worker[p].op # "review_form"
              /\ worker'[p].pc = "idle")
             => /\ reviews' = Append(reviews,
                       [id |-> Len(reviews) + 1, business_id |-> worker[p].biz,
                        rating |-> worker[p].rating, seen |-> FALSE,
                        flagged |-> (worker[p].rating <= 2)])
                /\ worker[p].op = "create_review" =>
                      resp' = OkBody(worker[p].rating <= 2)
       /\ \A i \in DOMAIN reviews :
             /\ i \in DOMAIN reviews'
             /\ reviews'[i].flagged = reviews[i].flagged
             /\ reviews[i].flagged = (reviews[i].rating <= 2)]_vars

\* the submissions tried whose rating is outside 1..5
BadForms == {f \in Forms : ~InRange(f[2])}
BadBodies == {b \in Bodies : ~InRange(b[2])}

\* C7: a submission whose rating is outside 1..5 is answered with a
\* validation error on either route and changes neither table nor starts
\* any work; every stored review has a rating in 1..5.
C7_BadRatingRejected ==
    [][/\ \A p \in Workers, f \in BadForms :
             submit_review_form(p, f[1], f[2], f[3], f[4])
             => /\ resp' = Resp(500, "ValidationError")
                /\ UNCHANGED <<businesses, reviews, worker>>
       /\ \A p \in Workers, b \in BadBodies :
             create_review(p, b[1], b[2], b[3], b[4])
             => /\ resp'.status = 422
                /\ UNCHANGED <<businesses, reviews, worker>>
       /\ \A i \in DOMAIN reviews' : InRange(reviews'[i].rating)
       /\ \A p \in Workers :
             (worker'[p].pc # "idle" /\ worker'[p].op # "review_form")
             => InRange(worker'[p].rating)]_vars

\* the JSON route has just refused a rating
C7_RatingRefused ==
    /\ resp = Resp(422, "rating")
    /\ \A p \in Workers : worker[p].pc = "idle"

\* C8: seen starts false, only an authorized mark_seen turns it true,
\* nothing turns it false again; mark_seen changes exactly the seen flag of
\* the row with that id, so a repeat or an unknown id changes nothing and
\* is still answered with the redirect.  (dumps is the token that verifies.)
C8_SeenMonotonic ==
    [][/\ \A i \in DOMAIN reviews :
             /\ i \in DOMAIN reviews'
             /\ reviews[i].seen => reviews'[i].seen
             /\ (~reviews[i].seen /\ reviews'[i].seen) =>
                   \E t \in SentCookies :
                      /\ Verifies(t) /\ t.payload = "admin_true"
                      /\ mark_seen(t, reviews[i].id)
       /\ \A i \in DOMAIN reviews' \ DOMAIN reviews : ~reviews'[i].seen
       /\ \A id \in ReviewIds :
             mark_seen(dumps, id)
             => /\ resp' = Resp(303, "")
                /\ DOMAIN reviews' = DOMAIN reviews
                /\ \A i \in DOMAIN reviews :
                      reviews'[i] = IF reviews[i].id = id
                                    THEN [reviews[i] EXCEPT !.seen = TRUE]
                                    ELSE reviews[i]]_vars

\* a review has been marked seen
C8_MarkedSeen ==
    /\ \E i \in DOMAIN reviews : reviews[i].seen
    /\ resp = Resp(303, "")

\* C9: an operation that has ended, in whatever way, holds no open
\* connection.
C9_ConnectionsReleased ==
    \A p \in Workers : worker[p].pc = "idle" => open[p] = 0

\* C10: every stored business has a slug of 1 to 60 characters.
C10_SlugLength ==
    \A i \in DOMAIN businesses :
       Len(businesses[i].slug) >= 1 /\ Len(businesses[i].slug) <= MaxSlugLen

====
